---- MODULE Spec2Model ----
(***************************************************************************)
(* Model of the Orchestrator scheduling core (src/orchestrator_core.py)    *)
(* together with the project reset of the API layer (src/api_server.py).   *)
(*                                                                         *)
(* Task objects live on a heap (taskObj); self.tasks is the ordered list   *)
(* of the ids registered in the dict.  A reset clears the dict, but the    *)
(* coroutines already dispatched keep their references to the task and     *)
(* agent objects, so the heap outlives the registry.                       *)
(***************************************************************************)
EXTENDS Integers, Sequences, FiniteSets, Bags, TLC

\* ---- bounds of the model -------------------------------------------------
\* A run is bounded by the environment events it contains: a submission
\* (process_requirement) counts two, a project reset one, and a worker call
\* that does not return a plain successful result one.
MaxEvents == 5
\* the same bound for the runs checked for liveness
MaxLiveEvents == 4
\* the same bound for the runs with decisions (a recorded decision counts one)
MaxDecisionEvents == 5
\* the same bound for the runs with the readers (status, listing, export)
MaxReaderEvents == 4
\* the largest registry the status functions are applied to directly
MaxStatusTasks == 4
\* the same bound for the runs that decompose the keyword texts
MaxDecomposerEvents == 3
\* the same bound for the runs with the periodic monitor
MaxMonitorEvents == 4

\* ---- values standing for Python's None ----------------------------------
NoTask == 0
NoAgent == "none"
NoOutput == [origin |-> "none", success |-> "absent", decisions_field |-> FALSE,
             response_mentions |-> FALSE]

\* ---- the fixed roster, in dict insertion order ---------------------------
AgentOrder ==
    <<"claude_analyst", "codex_impl", "claude2_validator", "ide_integrator",
      "deepseek_reasoner">>

AgentIds == {AgentOrder[i] : i \in 1..Len(AgentOrder)}

AgentType ==
    [claude_analyst |-> "analyst", codex_impl |-> "implementer",
     claude2_validator |-> "validator", ide_integrator |-> "integrator",
     deepseek_reasoner |-> "reasoner"]

TaskStatus == {"pending", "assigned", "in_progress", "review", "completed", "blocked"}

SignalType ==
    {"requirement", "decision_needed", "innovation_detected", "quality_issue",
     "integration_ready", "deployment_signal"}

\* ---- texts, as sequences of characters -----------------------------------
HelloText ==
    <<"B","u","i","l","d"," ","a"," ","s","i","m","p","l","e"," ","h","e","l","l","o",
      " ","w","o","r","l","d"," ","p","a","g","e">>

OptimizeText ==
    <<"O","p","t","i","m","i","z","e"," ","t","h","e"," ","a","l","g","o","r","i","t",
      "h","m"," ","f","o","r"," ","s","c","a","l","a","b","l","e"," ","p","e","r","f",
      "o","r","m","a","n","c","e">>

RestText ==
    <<"B","u","i","l","d"," ","a"," ","R","E","S","T"," ","A","P","I"," ","f","o","r",
      " ","u","s","e","r"," ","m","a","n","a","g","e","m","e","n","t"," ","w","i","t",
      "h"," ","J","W","T"," ","a","u","t","h","e","n","t","i","c","a","t","i","o","n">>

DeepKeywords ==
    << <<"o","p","t","i","m","i","z","e">>,
       <<"p","e","r","f","o","r","m","a","n","c","e">>,
       <<"a","l","g","o","r","i","t","h","m">>,
       <<"c","o","m","p","l","e","x">>,
       <<"a","r","c","h","i","t","e","c","t","u","r","e">>,
       <<"s","c","a","l","e">>,
       <<"s","e","c","u","r","i","t","y">>,
       <<"a","n","a","l","y","z","e">>,
       <<"e","f","f","i","c","i","e","n","t">>,
       <<"b","o","t","t","l","e","n","e","c","k">> >>

HelloWorldWord ==
    <<"h","e","l","l","o"," ","w","o","r","l","d">>

WebpageWord ==
    <<"w","e","b","p","a","g","e">>

UpperCase ==
    <<"A","B","C","D","E","F","G","H","I","J","K","L","M","N","O","P","Q","R","S","T",
      "U","V","W","X","Y","Z">>

LowerCase ==
    <<"a","b","c","d","e","f","g","h","i","j","k","l","m","n","o","p","q","r","s","t",
      "u","v","w","x","y","z">>

AnalyzePrefix ==
    <<"A","n","a","l","y","z","e"," ","a","n","d"," ","a","r","c","h","i","t","e","c",
      "t"," ","s","o","l","u","t","i","o","n"," ","f","o","r",":"," ">>

ReasonPrefix ==
    <<"P","e","r","f","o","r","m"," ","d","e","e","p"," ","t","e","c","h","n","i","c",
      "a","l"," ","a","n","a","l","y","s","i","s"," ","a","n","d"," ","o","p","t","i",
      "m","i","z","a","t","i","o","n"," ","f","o","r",":"," ">>

PlanPrefix ==
    <<"C","r","e","a","t","e"," ","i","m","p","l","e","m","e","n","t","a","t","i","o",
      "n"," ","p","l","a","n"," ","f","o","r",":"," ">>

GeneratePrefix ==
    <<"G","e","n","e","r","a","t","e"," ","c","o","d","e"," ","i","m","p","l","e","m",
      "e","n","t","a","t","i","o","n"," ","f","o","r",":"," ">>

ValidatePrefix ==
    <<"V","a","l","i","d","a","t","e"," ","a","n","d"," ","t","e","s","t"," ","i","m",
      "p","l","e","m","e","n","t","a","t","i","o","n"," ","f","o","r",":"," ">>

RefinePrefix ==
    <<"O","p","t","i","m","i","z","e"," ","a","n","d"," ","r","e","f","i","n","e"," ",
      "i","m","p","l","e","m","e","n","t","a","t","i","o","n"," ","b","a","s","e","d",
      " ","o","n"," ","a","n","a","l","y","s","i","s",":"," ">>

\* str.lower() on one character
LowerChar(c) ==
    IF \E i \in 1..Len(UpperCase) : UpperCase[i] = c
    THEN LowerCase[CHOOSE i \in 1..Len(UpperCase) : UpperCase[i] = c]
    ELSE c

\* str.lower()
Lower(s) == [i \in 1..Len(s) |-> LowerChar(s[i])]

\* Python's  w in s  on strings
Contains(s, w) ==
    \E k \in 0..(Len(s) - Len(w)) : \A j \in 1..Len(w) : s[k + j] = w[j]

\* the requirement strings submitted in the model
RequirementText == [hello |-> HelloText, optimize |-> OptimizeText, rest |-> RestText]

Requirements == DOMAIN RequirementText

\* str.upper() on one character
UpperChar(c) ==
    IF \E i \in 1..Len(LowerCase) : LowerCase[i] = c
    THEN UpperCase[CHOOSE i \in 1..Len(LowerCase) : LowerCase[i] = c]
    ELSE c

\* str.upper()
Upper(s) == [i \in 1..Len(s) |-> UpperChar(s[i])]

\* the sentence "Add <w> now"
Sentence(w) == <<"A","d","d"," ">> \o w \o <<" ","n","o","w">>

\* requirement strings around the keywords of _decompose_requirement: each
\* keyword alone in a sentence, in upper case, or inside a longer word; the
\* near misses "scalable" and "analysis"; and the empty string
KeywordText ==
    [kw_optimize     |-> Sentence(DeepKeywords[1]),
     kw_performance  |-> Upper(Sentence(DeepKeywords[2])),
     kw_algorithm    |-> DeepKeywords[3],
     kw_complex      |-> Sentence(DeepKeywords[4]),
     kw_architecture |-> Sentence(DeepKeywords[5]),
     kw_scale        |-> <<"R","e">> \o DeepKeywords[6] \o <<"d">>,
     kw_security     |-> Upper(DeepKeywords[7]),
     kw_analyze      |-> Sentence(DeepKeywords[8]),
     kw_efficient    |-> <<"I","n">> \o DeepKeywords[9] \o <<"l","y">>,
     kw_bottleneck   |-> Sentence(DeepKeywords[10]),
     scalable        |-> Sentence(<<"s","c","a","l","a","b","l","e">>),
     analysis        |-> Sentence(<<"a","n","a","l","y","s","i","s">>),
     empty           |-> << >>]

\* every requirement string of the model
Text == RequirementText @@ KeywordText

DescriptionPrefix ==
    [analyze |-> AnalyzePrefix, reason |-> ReasonPrefix, plan |-> PlanPrefix,
     generate |-> GeneratePrefix, validate |-> ValidatePrefix, refine |-> RefinePrefix]

\* a description is kept as (prefix kind, requirement); this is its text
DescriptionText(d) == DescriptionPrefix[d.kind] \o Text[d.requirement]

\* mutant of _decompose_requirement: the keywords are looked up in the
\* requirement as typed (requirement instead of requirement.lower())
needs_deep_reasoning_case_sensitive(requirement) ==
    \E i \in 1..Len(DeepKeywords) : Contains(requirement, DeepKeywords[i])

needs_deep_reasoning(requirement) ==
    \E i \in 1..Len(DeepKeywords) : Contains(Lower(requirement), DeepKeywords[i])

\* evaluated once per requirement of the model
NeedsDeep == [r \in DOMAIN Text |-> needs_deep_reasoning(Text[r])]

SimpleSite ==
    [d \in [kind : DOMAIN DescriptionPrefix, requirement : DOMAIN Text] |->
        \/ Contains(Lower(DescriptionText(d)), HelloWorldWord)
        \/ Contains(Lower(DescriptionText(d)), WebpageWord)]

\* ---- fresh identifiers ----------------------------------------------------
\* uuid4() values are pairwise distinct; the k-th uuid drawn for the n-th
\* submission is n * 10 + k (k = 0 is the requirement id, k >= 1 the tasks),
\* and the uuid of the decision signal raised for task t is 100 + t.
Uuid(n, k) == n * 10 + k

SignalUuid(t) == 100 + t

BatchOf(id) == id \div 10

\* ---- Task, Signal ---------------------------------------------------------
\* mutant of the Task constructor: the priority argument is dropped and the
\* dataclass default (priority: int = 5) stays
Task_default_priority(id, kind, req, agent_type, priority, deps) ==
    [id |-> id, description |-> [kind |-> kind, requirement |-> req],
     agent_type |-> agent_type, status |-> "pending", priority |-> 5,
     dependencies |-> deps, output |-> NoOutput, assigned_to |-> NoAgent,
     completed_at |-> "None"]

Task(id, kind, req, agent_type, priority, deps) ==
    [id |-> id, description |-> [kind |-> kind, requirement |-> req],
     agent_type |-> agent_type, status |-> "pending", priority |-> priority,
     dependencies |-> deps, output |-> NoOutput, assigned_to |-> NoAgent,
     completed_at |-> "None"]

Signal(id, type, source, data) ==
    [id |-> id, type |-> type, source |-> source, data |-> data, confidence |-> 1]

\* mutant of _decompose_requirement: the plan always depends on the analysis
\* task (tasks[0]), also when a deep-reasoning task was inserted
decompose_requirement_branching(n, req) ==
    LET deep == NeedsDeep[req]
        t0 == << Task(Uuid(n, 1), "analyze", req, "analyst", 10, << >>) >>
        t1 == IF deep
              THEN Append(t0, Task(Uuid(n, Len(t0) + 1), "reason", req, "reasoner", 9,
                                   << t0[1].id >>))
              ELSE t0
        plan_deps == << t1[1].id >>
        t2 == Append(t1, Task(Uuid(n, Len(t1) + 1), "plan", req, "analyst", 8, plan_deps))
        t3 == Append(t2, Task(Uuid(n, Len(t2) + 1), "generate", req, "implementer", 7,
                              << t2[Len(t2)].id >>))
        t4 == Append(t3, Task(Uuid(n, Len(t3) + 1), "validate", req, "validator", 6,
                              << t3[Len(t3)].id >>))
        t5 == IF deep
              THEN Append(t4, Task(Uuid(n, Len(t4) + 1), "refine", req, "reasoner", 5,
                                   << t4[Len(t4)].id >>))
              ELSE t4
    IN  t5

\* mutant of _decompose_requirement: the dependency of the first task is
\* resolved against the tasks of the previous call (the analysis of the n-th
\* requirement waits for the validation of the one before)
decompose_requirement_continuing(n, req) ==
    LET deep == NeedsDeep[req]
        t0 == << Task(Uuid(n, 1), "analyze", req, "analyst", 10,
                      IF n > 1 THEN << Uuid(n - 1, 4) >> ELSE << >>) >>
        t1 == IF deep
              THEN Append(t0, Task(Uuid(n, Len(t0) + 1), "reason", req, "reasoner", 9,
                                   << t0[1].id >>))
              ELSE t0
        plan_deps == IF deep THEN << t1[Len(t1)].id >> ELSE << t1[1].id >>
        t2 == Append(t1, Task(Uuid(n, Len(t1) + 1), "plan", req, "analyst", 8, plan_deps))
        t3 == Append(t2, Task(Uuid(n, Len(t2) + 1), "generate", req, "implementer", 7,
                              << t2[Len(t2)].id >>))
        t4 == Append(t3, Task(Uuid(n, Len(t3) + 1), "validate", req, "validator", 6,
                              << t3[Len(t3)].id >>))
        t5 == IF deep
              THEN Append(t4, Task(Uuid(n, Len(t4) + 1), "refine", req, "reasoner", 5,
                                   << t4[Len(t4)].id >>))
              ELSE t4
    IN  t5

\* mutant of _decompose_requirement: the validation depends on the plan
\* (tasks[-2]) instead of the implementation (tasks[-1])
decompose_requirement_fan_out(n, req) ==
    LET deep == NeedsDeep[req]
        t0 == << Task(Uuid(n, 1), "analyze", req, "analyst", 10, << >>) >>
        t1 == IF deep
              THEN Append(t0, Task(Uuid(n, Len(t0) + 1), "reason", req, "reasoner", 9,
                                   << t0[1].id >>))
              ELSE t0
        plan_deps == IF deep THEN << t1[Len(t1)].id >> ELSE << t1[1].id >>
        t2 == Append(t1, Task(Uuid(n, Len(t1) + 1), "plan", req, "analyst", 8, plan_deps))
        t3 == Append(t2, Task(Uuid(n, Len(t2) + 1), "generate", req, "implementer", 7,
                              << t2[Len(t2)].id >>))
        t4 == Append(t3, Task(Uuid(n, Len(t3) + 1), "validate", req, "validator", 6,
                              << t3[Len(t3) - 1].id >>))
        t5 == IF deep
              THEN Append(t4, Task(Uuid(n, Len(t4) + 1), "refine", req, "reasoner", 5,
                                   << t4[Len(t4)].id >>))
              ELSE t4
    IN  t5

\* ---- _decompose_requirement ----------------------------------------------
decompose_requirement(n, req) ==
    LET deep == NeedsDeep[req]
        t0 == << Task(Uuid(n, 1), "analyze", req, "analyst", 10, << >>) >>
        t1 == IF deep
              THEN Append(t0, Task(Uuid(n, Len(t0) + 1), "reason", req, "reasoner", 9,
                                   << t0[1].id >>))
              ELSE t0
        plan_deps == IF deep THEN << t1[Len(t1)].id >> ELSE << t1[1].id >>
        t2 == Append(t1, Task(Uuid(n, Len(t1) + 1), "plan", req, "analyst", 8, plan_deps))
        t3 == Append(t2, Task(Uuid(n, Len(t2) + 1), "generate", req, "implementer", 7,
                              << t2[Len(t2)].id >>))
        t4 == Append(t3, Task(Uuid(n, Len(t3) + 1), "validate", req, "validator", 6,
                              << t3[Len(t3)].id >>))
        t5 == IF deep
              THEN Append(t4, Task(Uuid(n, Len(t4) + 1), "refine", req, "reasoner", 5,
                                   << t4[Len(t4)].id >>))
              ELSE t4
    IN  t5

VARIABLES
    tasks,          \* self.tasks: the registered task ids, in dict order
    taskObj,        \* the Task objects ever created, by id
    agents,         \* self.agents: agent id -> [status, current_task]
    signals,        \* self.signals
    context,        \* self.context
    execution_log,  \* self.execution_log, as a bag of entries
    exec,           \* the _execute_task coroutines: task id -> position and counters
    project_id,     \* self.project_id: the number of resets so far
    submitted,      \* number of process_requirement calls so far
    faults,         \* number of worker calls that raised, failed or were unusual
    decided,        \* number of decisions recorded so far
    returned,       \* the call that ran last and its return value, for the
                    \* handlers that return one to their caller
    budget          \* the bound on the events of this run

vars ==
    << tasks, taskObj, agents, signals, context, execution_log, exec, project_id,
       submitted, faults, decided, returned, budget >>

Range(s) == {s[i] : i \in 1..Len(s)}

Registered == Range(tasks)

Created == DOMAIN taskObj

Dispatched == DOMAIN exec

\* the scheduler's mutable view: task objects, agents, coroutines
Sched == [obj |-> taskObj, ag |-> agents, ex |-> exec]

\* mutant of _dependencies_met: a dependency counts as met once it has left
\* pending (status != PENDING instead of == COMPLETED)
dependencies_met_started(obj, reg, t) ==
    \A i \in 1..Len(obj[t].dependencies) :
        LET dep_id == obj[t].dependencies[i]
        IN  dep_id \in reg /\ obj[dep_id].status # "pending"

\* mutant of _dependencies_met: only a blocked or missing dependency holds a
\* task back (status != BLOCKED instead of == COMPLETED)
dependencies_met_unless_blocked(obj, reg, t) ==
    \A i \in 1..Len(obj[t].dependencies) :
        LET dep_id == obj[t].dependencies[i]
        IN  dep_id \in reg /\ obj[dep_id].status # "blocked"

\* ---- _dependencies_met (reg: the keys of self.tasks) ----------------------
dependencies_met(obj, reg, t) ==
    \A i \in 1..Len(obj[t].dependencies) :
        LET dep_id == obj[t].dependencies[i]
        IN  dep_id \in reg /\ obj[dep_id].status = "completed"

\* mutant of _assign_task: the category of the agent is not compared with the
\* category of the task (agent.status == "ready" only)
find_available_any_type(ag, agent_type) ==
    LET cands == {i \in 1..Len(AgentOrder) : ag[AgentOrder[i]].status = "ready"}
    IN  IF cands = {} THEN NoAgent
        ELSE AgentOrder[CHOOSE i \in cands : \A j \in cands : i <= j]

\* ---- the agent _assign_task picks: first in roster order ------------------
find_available(ag, agent_type) ==
    LET cands == {i \in 1..Len(AgentOrder) :
                     /\ AgentType[AgentOrder[i]] = agent_type
                     /\ ag[AgentOrder[i]].status = "ready"}
    IN  IF cands = {} THEN NoAgent
        ELSE AgentOrder[CHOOSE i \in cands : \A j \in cands : i <= j]

\* a fresh coroutine created by asyncio.create_task, not yet run
\* (worker_context: the context the worker was called with, {} before the call)
NewCoroutine(a) ==
    [pc |-> "scheduled", agent |-> a, calls |-> 0, fallbacks |-> 0,
     worker_context |-> << >>]

\* the dict _execute_task hands to bridge.execute_task
TaskData(task, a) ==
    [id |-> task.id, description |-> task.description, priority |-> task.priority,
     agent_type |-> AgentType[a]]

\* AgentBridge.execute_task: context = task.get("context", {})
bridge_context(task_data) ==
    IF "context" \in DOMAIN task_data THEN task_data["context"] ELSE << >>

\* mutant of _assign_task: a task that finds no ready worker is marked blocked
assign_task_blocking(S, reg, t) ==
    IF ~dependencies_met(S.obj, reg, t) THEN S
    ELSE LET a == find_available(S.ag, S.obj[t].agent_type)
         IN  IF a = NoAgent THEN [S EXCEPT !.obj[t].status = "blocked"]
             ELSE [obj |-> [S.obj EXCEPT ![t].assigned_to = a, ![t].status = "assigned"],
                   ag  |-> [S.ag EXCEPT ![a] = [status |-> "working", current_task |-> t]],
                   ex  |-> (t :> NewCoroutine(a)) @@ S.ex]

\* ---- _assign_task ---------------------------------------------------------
assign_task(S, reg, t) ==
    IF ~dependencies_met(S.obj, reg, t) THEN S
    ELSE LET a == find_available(S.ag, S.obj[t].agent_type)
         IN  IF a = NoAgent THEN S
             ELSE [obj |-> [S.obj EXCEPT ![t].assigned_to = a, ![t].status = "assigned"],
                   ag  |-> [S.ag EXCEPT ![a] = [status |-> "working", current_task |-> t]],
                   ex  |-> (t :> NewCoroutine(a)) @@ S.ex]

\* ---- _check_pending_tasks: one pass over self.tasks in dict order ---------
\* (S is bound once per iteration, so that each iteration is evaluated once)
RECURSIVE check_pending_from(_, _, _)
check_pending_from(S0, order, i) ==
    IF i > Len(order) THEN S0
    ELSE CHOOSE R \in
             {check_pending_from(
                  IF S.obj[order[i]].status = "pending"
                  THEN assign_task(S, Range(order), order[i])
                  ELSE S,
                  order, i + 1) : S \in {S0}} : TRUE

check_pending_tasks(S, order) == check_pending_from(S, order, 1)

\* mutant of process_requirement's loop: the tasks are registered and the
\* scheduling is left to a later pass (the call of _assign_task is missing)
register_from_unassigned(S0, order, batch, i) ==
    [S |-> [S0 EXCEPT !.obj = [t \in {batch[j].id : j \in i..Len(batch)} |->
                                  batch[CHOOSE j \in i..Len(batch) : batch[j].id = t]]
                              @@ S0.obj],
     order |-> order \o [j \in 1..(Len(batch) - i + 1) |-> batch[i + j - 1].id]]

\* ---- process_requirement's loop: register, then try to assign -------------
RECURSIVE register_from(_, _, _, _)
register_from(S0, order, batch, i) ==
    IF i > Len(batch) THEN [S |-> S0, order |-> order]
    ELSE LET t == batch[i].id
             order1 == Append(order, t)
         IN  CHOOSE R \in
                 {register_from(
                      assign_task([S EXCEPT !.obj = (t :> batch[i]) @@ S.obj],
                                  Range(order1), t),
                      order1, batch, i + 1) : S \in {S0}} : TRUE

LogEntry(event_type, id) == [event_type |-> event_type, id |-> id]

log_event(log, event_type, id) == log (+) SetToBag({LogEntry(event_type, id)})

\* ---- results of the worker call (agent_bridge.execute_task) ---------------
\* the dict always carries task_id and agent_id, so it is never falsy
BridgeResult(outcome) ==
    [origin |-> "bridge",
     success |-> IF outcome = "fail" THEN "false" ELSE "true",
     decisions_field |-> FALSE,
     response_mentions |-> (outcome = "mention")]

\* the returns of the worker call: a plain success, a success whose response
\* text mentions decisions_needed, and {success: False, error: ...}
Outcomes == {"ok", "mention", "fail"}

\* ---- the simulated output of _execute_task --------------------------------
SimulatedOutput(agent_type, description) ==
    IF agent_type = "analyst"
    THEN [origin |-> "simulation", success |-> "absent",
          decisions_field |-> ~SimpleSite[description], response_mentions |-> FALSE]
    ELSE IF agent_type \in {"implementer", "validator", "reasoner"}
    THEN [origin |-> "simulation", success |-> "absent", decisions_field |-> FALSE,
          response_mentions |-> FALSE]
    ELSE NoOutput

\* "decisions_needed" in str(task.output)
MentionsDecisions(output) == output.decisions_field \/ output.response_mentions

\* mutant of _create_decision_signal: the signal is put in front of the log
\* (self.signals.insert(0, signal) instead of append)
create_decision_signal_in_front(sigs, task) ==
    << Signal(SignalUuid(task.id), "decision_needed", task.assigned_to,
              [task_id |-> task.id, decisions |-> task.output.decisions_field,
               context |-> task.output]) >> \o sigs

\* mutant of _create_decision_signal: one signal per entry of a two-entry
\* decisions list (the simulated analysis lists two decisions)
create_decision_signal_per_decision(sigs, task) ==
    LET signal == Signal(SignalUuid(task.id), "decision_needed", task.assigned_to,
                         [task_id |-> task.id, decisions |-> task.output.decisions_field,
                          context |-> task.output])
    IN  sigs \o << signal, signal >>

\* ---- _create_decision_signal ----------------------------------------------
create_decision_signal(sigs, task) ==
    Append(sigs, Signal(SignalUuid(task.id), "decision_needed", task.assigned_to,
                        [task_id |-> task.id, decisions |-> task.output.decisions_field,
                         context |-> task.output]))

\* mutant of _execute_task: the completion handler does not re-scan the
\* pending tasks (the call of _check_pending_tasks is missing)
execute_finish_no_rescan(t, result) ==
    LET a == exec[t].agent
        fell == (result = NoOutput)
        output == IF fell
                  THEN SimulatedOutput(AgentType[a], taskObj[t].description)
                  ELSE result
        obj1 == [taskObj EXCEPT ![t].output = output, ![t].status = "completed",
                                ![t].completed_at = "set"]
        ag1 == [agents EXCEPT ![a] = [status |-> "ready", current_task |-> NoTask]]
        ex1 == [exec EXCEPT ![t].pc = "done",
                            ![t].fallbacks = @ + (IF fell THEN 1 ELSE 0)]
        sigs == IF MentionsDecisions(output)
                THEN create_decision_signal(signals, obj1[t])
                ELSE signals
    IN  [S |-> [obj |-> obj1, ag |-> ag1, ex |-> ex1], signals |-> sigs,
         log |-> log_event(execution_log, "task_completed", t)]

\* mutant of _execute_task: a task whose worker call raised goes back to
\* pending instead of completing with the simulated output, and the re-scan
\* dispatches it again
execute_finish_requeue(t, result) ==
    LET a == exec[t].agent
        fell == (result = NoOutput)
        obj1 == IF fell
                THEN [taskObj EXCEPT ![t].status = "pending"]
                ELSE [taskObj EXCEPT ![t].output = result, ![t].status = "completed",
                                     ![t].completed_at = "set"]
        ag1 == [agents EXCEPT ![a] = [status |-> "ready", current_task |-> NoTask]]
        ex1 == [exec EXCEPT ![t].pc = "done",
                            ![t].fallbacks = @ + (IF fell THEN 1 ELSE 0)]
        sigs == IF ~fell /\ MentionsDecisions(result)
                THEN create_decision_signal(signals, obj1[t])
                ELSE signals
        S == check_pending_tasks([obj |-> obj1, ag |-> ag1, ex |-> ex1], tasks)
    IN  [S |-> S, signals |-> sigs,
         log |-> log_event(execution_log, "task_completed", t)]

\* mutant of _execute_task: the completed task is detached from its worker
\* (task.assigned_to = None next to agent.current_task = None)
execute_finish_unassigning(t, result) ==
    LET a == exec[t].agent
        fell == (result = NoOutput)
        output == IF fell
                  THEN SimulatedOutput(AgentType[a], taskObj[t].description)
                  ELSE result
        obj1 == [taskObj EXCEPT ![t].output = output, ![t].status = "completed",
                                ![t].completed_at = "set",
                                ![t].assigned_to = NoAgent]
        ag1 == [agents EXCEPT ![a] = [status |-> "ready", current_task |-> NoTask]]
        ex1 == [exec EXCEPT ![t].pc = "done",
                            ![t].fallbacks = @ + (IF fell THEN 1 ELSE 0)]
        sigs == IF MentionsDecisions(output)
                THEN create_decision_signal(signals, [obj1[t] EXCEPT !.assigned_to = a])
                ELSE signals
        S == check_pending_tasks([obj |-> obj1, ag |-> ag1, ex |-> ex1], tasks)
    IN  [S |-> S, signals |-> sigs,
         log |-> log_event(execution_log, "task_completed", t)]

\* mutant of _execute_task: the worker is not released at the end of the
\* execution (lines 448-449 missing)
execute_finish_holding_worker(t, result) ==
    LET a == exec[t].agent
        fell == (result = NoOutput)
        output == IF fell
                  THEN SimulatedOutput(AgentType[a], taskObj[t].description)
                  ELSE result
        obj1 == [taskObj EXCEPT ![t].output = output, ![t].status = "completed",
                                ![t].completed_at = "set"]
        ex1 == [exec EXCEPT ![t].pc = "done",
                            ![t].fallbacks = @ + (IF fell THEN 1 ELSE 0)]
        sigs == IF MentionsDecisions(output)
                THEN create_decision_signal(signals, obj1[t])
                ELSE signals
        S == check_pending_tasks([obj |-> obj1, ag |-> agents, ex |-> ex1], tasks)
    IN  [S |-> S, signals |-> sigs,
         log |-> log_event(execution_log, "task_completed", t)]

\* ---- _execute_task from the return of the worker call to its end ----------
\* result is the worker's dict, or NoOutput on the exception path
\* (the workspace file written for the implementer is not part of the state)
execute_finish(t, result) ==
    LET a == exec[t].agent
        fell == (result = NoOutput)
        output == IF fell
                  THEN SimulatedOutput(AgentType[a], taskObj[t].description)
                  ELSE result
        obj1 == [taskObj EXCEPT ![t].output = output, ![t].status = "completed",
                                ![t].completed_at = "set"]
        ag1 == [agents EXCEPT ![a] = [status |-> "ready", current_task |-> NoTask]]
        ex1 == [exec EXCEPT ![t].pc = "done",
                            ![t].fallbacks = @ + (IF fell THEN 1 ELSE 0)]
        sigs == IF MentionsDecisions(output)
                THEN create_decision_signal(signals, obj1[t])
                ELSE signals
        S == check_pending_tasks([obj |-> obj1, ag |-> ag1, ex |-> ex1], tasks)
    IN  [S |-> S, signals |-> sigs,
         log |-> log_event(execution_log, "task_completed", t)]

\* ---- initial state: OrchestratorCore.__init__ -----------------------------
NoContext == [absent |-> TRUE]

\* the last handler returned nothing to a caller
NoReturn == [call |-> "none", signal_id |-> NoTask, decision |-> "none", value |-> "none"]

Constructed ==
    /\ tasks = << >>
    /\ taskObj = << >>
    /\ agents = [a \in AgentIds |-> [status |-> "ready", current_task |-> NoTask]]
    /\ signals = << >>
    /\ context = NoContext
    /\ execution_log = EmptyBag
    /\ exec = << >>
    /\ project_id = 0
    /\ submitted = 0
    /\ faults = 0
    /\ decided = 0
    /\ returned = NoReturn

Init == Constructed /\ budget = MaxEvents

InitLive == Constructed /\ budget = MaxLiveEvents

InitDecision == Constructed /\ budget = MaxDecisionEvents

\* ---- process_requirement --------------------------------------------------
DefaultPriority == 5

\* the events of the run so far, weighted as MaxEvents counts them
Spent == 2 * submitted + project_id + faults + decided

Submit(req) ==
    /\ Spent + 2 <= budget
    /\ LET n == submitted + 1
           req_id == Uuid(n, 0)
           R == register_from(Sched, tasks, decompose_requirement(n, req), 1)
       IN  /\ signals' = Append(signals,
                                Signal(req_id, "requirement", "user",
                                       [content |-> req, priority |-> DefaultPriority]))
           /\ tasks' = R.order
           /\ taskObj' = R.S.obj
           /\ agents' = R.S.ag
           /\ exec' = R.S.ex
           /\ execution_log' = log_event(execution_log, "requirement_processed", req_id)
           /\ submitted' = n
           /\ returned' = [call |-> "process_requirement", value |-> req_id]
    /\ UNCHANGED << context, project_id, faults, budget, decided >>

\* mutant of the start of _execute_task: the status stays assigned
ExecStartSilent(t) ==
    /\ t \in Dispatched
    /\ exec[t].pc = "scheduled"
    /\ execution_log' = log_event(execution_log, "task_started", t)
    /\ exec' = [exec EXCEPT ![t].pc = "awaiting", ![t].calls = @ + 1,
                            ![t].worker_context =
                                bridge_context(TaskData(taskObj[t], exec[t].agent))]
    /\ UNCHANGED << tasks, taskObj, agents, signals, context, project_id, submitted,
                    faults, budget, decided >>
    /\ returned' = NoReturn

\* ---- _execute_task: from its first line to the await of the worker call ---
\* (await bridge.execute_task is the suspension point of the coroutine: other
\* handlers may run between this step and the return of the call)
ExecStart(t) ==
    /\ t \in Dispatched
    /\ exec[t].pc = "scheduled"
    /\ taskObj' = [taskObj EXCEPT ![t].status = "in_progress"]
    /\ execution_log' = log_event(execution_log, "task_started", t)
    /\ exec' = [exec EXCEPT ![t].pc = "awaiting", ![t].calls = @ + 1,
                            ![t].worker_context =
                                bridge_context(TaskData(taskObj[t], exec[t].agent))]
    /\ UNCHANGED << tasks, agents, signals, context, project_id, submitted, faults,
                    budget, decided >>
    /\ returned' = NoReturn

Finish(t, result) ==
    LET F == execute_finish(t, result)
    IN  /\ taskObj' = F.S.obj
        /\ agents' = F.S.ag
        /\ exec' = F.S.ex
        /\ signals' = F.signals
        /\ execution_log' = F.log
        /\ UNCHANGED << tasks, context, project_id, submitted, budget, decided >>
        /\ returned' = NoReturn

\* ---- the worker call returns ----------------------------------------------
BridgeReturn(t, outcome) ==
    /\ t \in Dispatched
    /\ exec[t].pc = "awaiting"
    /\ outcome # "ok" => Spent + 1 <= budget
    /\ faults' = faults + (IF outcome = "ok" THEN 0 ELSE 1)
    /\ Finish(t, BridgeResult(outcome))

\* mutant of the except branch: the worker call is issued again (a retry)
BridgeRaiseRetry(t) ==
    /\ t \in Dispatched
    /\ exec[t].pc = "awaiting"
    /\ Spent + 1 <= budget
    /\ faults' = faults + 1
    /\ exec' = [exec EXCEPT ![t].calls = @ + 1]
    /\ UNCHANGED << tasks, taskObj, agents, signals, context, execution_log, project_id,
                    submitted, budget, decided >>
    /\ returned' = NoReturn

\* ---- the worker call raises: except branch up to asyncio.sleep(2) ---------
BridgeRaise(t) ==
    /\ t \in Dispatched
    /\ exec[t].pc = "awaiting"
    /\ Spent + 1 <= budget
    /\ faults' = faults + 1
    /\ exec' = [exec EXCEPT ![t].pc = "sleeping"]
    /\ UNCHANGED << tasks, taskObj, agents, signals, context, execution_log, project_id,
                    submitted, budget, decided >>
    /\ returned' = NoReturn

\* ---- the sleep ends: task.output = None, then the simulated output --------
FallbackWake(t) ==
    /\ t \in Dispatched
    /\ exec[t].pc = "sleeping"
    /\ faults' = faults
    /\ Finish(t, NoOutput)

\* mutant of reset_project: the project context survives the reset
\* (orchestrator.context = None is missing)
ResetKeepingContext ==
    /\ Spent + 1 <= budget
    /\ tasks' = << >>
    /\ signals' = << >>
    /\ agents' = [a \in AgentIds |-> [status |-> "ready", current_task |-> NoTask]]
    /\ execution_log' = EmptyBag
    /\ project_id' = project_id + 1
    /\ UNCHANGED << taskObj, exec, context, submitted, faults, budget, decided >>
    /\ returned' = NoReturn

\* ---- api_server.reset_project ---------------------------------------------
Reset ==
    /\ Spent + 1 <= budget
    /\ tasks' = << >>
    /\ signals' = << >>
    /\ agents' = [a \in AgentIds |-> [status |-> "ready", current_task |-> NoTask]]
    /\ execution_log' = EmptyBag
    /\ context' = NoContext
    /\ project_id' = project_id + 1
    /\ UNCHANGED << taskObj, exec, submitted, faults, budget, decided >>
    /\ returned' = NoReturn

\* ---- make_decision ---------------------------------------------------------
\* ProjectContext(project_id, name = "Project", ...): requirements = [] and
\* decisions = {} by the dataclass defaults
ProjectContext(pid) ==
    [absent |-> FALSE, project_id |-> pid, name |-> "Project",
     requirements |-> << >>, decisions |-> << >>]

\* the entry stored under the signal id (its timestamp is not part of the state)
DecisionRecord(decision, signal) == [decision |-> decision, signal_data |-> signal.data]

\* mutant of make_decision: the context is created before the signal is
\* looked up
make_decision_eager_context(sigs, ctx, log, pid, signal_id, decision) ==
    LET found == {i \in 1..Len(sigs) : sigs[i].id = signal_id}
        ctx1 == IF ctx.absent THEN ProjectContext(pid) ELSE ctx
    IN  IF found = {} THEN [ok |-> FALSE, context |-> ctx1, log |-> log]
        ELSE LET signal == sigs[CHOOSE i \in found : \A j \in found : i <= j]
             IN  [ok |-> TRUE,
                  context |-> [ctx1 EXCEPT !.decisions =
                                   (signal_id :> DecisionRecord(decision, signal)) @@ @],
                  log |-> log_event(log, "decision_made", signal_id)]

\* mutant of make_decision: a new ProjectContext is built for every decision
make_decision_fresh_context(sigs, ctx, log, pid, signal_id, decision) ==
    LET found == {i \in 1..Len(sigs) : sigs[i].id = signal_id}
    IN  IF found = {} THEN [ok |-> FALSE, context |-> ctx, log |-> log]
        ELSE LET signal == sigs[CHOOSE i \in found : \A j \in found : i <= j]
                 ctx1 == ProjectContext(pid)
             IN  [ok |-> TRUE,
                  context |-> [ctx1 EXCEPT !.decisions =
                                   (signal_id :> DecisionRecord(decision, signal)) @@ @],
                  log |-> log_event(log, "decision_made", signal_id)]

\* the return value, the context and the log after make_decision(signal_id,
\* decision); the signal is the first of the log with that id
make_decision(sigs, ctx, log, pid, signal_id, decision) ==
    LET found == {i \in 1..Len(sigs) : sigs[i].id = signal_id}
    IN  IF found = {} THEN [ok |-> FALSE, context |-> ctx, log |-> log]
        ELSE LET signal == sigs[CHOOSE i \in found : \A j \in found : i <= j]
                 ctx1 == IF ctx.absent THEN ProjectContext(pid) ELSE ctx
             IN  [ok |-> TRUE,
                  context |-> [ctx1 EXCEPT !.decisions =
                                   (signal_id :> DecisionRecord(decision, signal)) @@ @],
                  log |-> log_event(log, "decision_made", signal_id)]

MakeDecision(signal_id, decision) ==
    LET R == make_decision(signals, context, execution_log, project_id, signal_id,
                           decision)
    IN  /\ R.ok => Spent + 1 <= budget
        /\ context' = R.context
        /\ execution_log' = R.log
        /\ decided' = decided + (IF R.ok THEN 1 ELSE 0)
        /\ returned' = [call |-> "make_decision", signal_id |-> signal_id,
                        decision |-> decision,
                        value |-> IF R.ok THEN "true" ELSE "false"]
        /\ UNCHANGED << tasks, taskObj, agents, signals, exec, project_id, submitted,
                        faults, budget >>

\* the ids of the signals in the log
SignalIds == {signals[i].id : i \in 1..Len(signals)}

\* the signal ids a caller may pass: those in the log, and the requirement ids
\* issued so far (gone from the log after a reset) or to be issued next
SignalIdInputs == SignalIds \cup {Uuid(n, 0) : n \in 1..(submitted + 1)}

Decisions == {"approve", "revise"}

\* ---- numbers: Python floats, kept exact as reduced fractions ----------------
RECURSIVE GCD(_, _)
GCD(a, b) == IF b = 0 THEN a ELSE GCD(b, a % b)

\* num / den for den > 0, in lowest terms
Rational(num, den) ==
    LET g == GCD(IF num < 0 THEN -num ELSE num, den)
    IN  [num |-> num \div g, den |-> den \div g]

\* sum(1 for t in self.tasks.values() if t.status == status)
CountStatus(obj, order, status) ==
    Cardinality({i \in 1..Len(order) : obj[order[i]].status = status})

\* mutant of _calculate_health_score: 20 is subtracted per blocked task, not
\* multiplied by the ratio (score -= blocked * 20)
calculate_health_score_per_task(obj, order) ==
    LET blocked == CountStatus(obj, order, "blocked")
        num == 85 - 20 * blocked
    IN  IF num > 100 THEN Rational(100, 1)
        ELSE IF num < 0 THEN Rational(0, 1)
        ELSE Rational(num, 1)

\* mutant of _calculate_health_score: the adjustment has the wrong sign
\* (score += blocked_ratio * 20)
calculate_health_score_rising(obj, order) ==
    LET blocked == CountStatus(obj, order, "blocked")
        den == IF Len(order) > 1 THEN Len(order) ELSE 1
        num == 85 * den + 20 * blocked
    IN  IF num > 100 * den THEN Rational(100, 1)
        ELSE IF num < 0 THEN Rational(0, 1)
        ELSE Rational(num, den)

\* ---- _calculate_health_score ------------------------------------------------
\* score = 85.0 - blocked / max(len(tasks), 1) * 20, then max(0, min(100, score))
calculate_health_score(obj, order) ==
    LET blocked == CountStatus(obj, order, "blocked")
        den == IF Len(order) > 1 THEN Len(order) ELSE 1
        num == 85 * den - 20 * blocked
    IN  IF num > 100 * den THEN Rational(100, 1)
        ELSE IF num < 0 THEN Rational(0, 1)
        ELSE Rational(num, den)

\* mutant of get_project_status: the progress counts the tasks in progress as
\* done
get_project_status_optimistic(pid, obj, order, ag, sigs) ==
    LET total_tasks == Len(order)
        completed_tasks == CountStatus(obj, order, "completed")
        started_tasks == completed_tasks + CountStatus(obj, order, "in_progress")
    IN  [project_id |-> pid,
         health_score |-> calculate_health_score(obj, order),
         progress |-> IF total_tasks > 0
                      THEN Rational(started_tasks * 100, total_tasks)
                      ELSE Rational(0, 1),
         active_agents |-> Cardinality({a \in DOMAIN ag : ag[a].status = "working"}),
         pending_decisions |->
             Cardinality({i \in 1..Len(sigs) : sigs[i].type = "decision_needed"}),
         tasks |-> [total |-> total_tasks,
                    completed |-> completed_tasks,
                    in_progress |-> CountStatus(obj, order, "in_progress"),
                    blocked |-> CountStatus(obj, order, "blocked")]]

\* ---- get_project_status ---------------------------------------------------
get_project_status(pid, obj, order, ag, sigs) ==
    LET total_tasks == Len(order)
        completed_tasks == CountStatus(obj, order, "completed")
    IN  [project_id |-> pid,
         health_score |-> calculate_health_score(obj, order),
         progress |-> IF total_tasks > 0
                      THEN Rational(completed_tasks * 100, total_tasks)
                      ELSE Rational(0, 1),
         active_agents |-> Cardinality({a \in DOMAIN ag : ag[a].status = "working"}),
         pending_decisions |->
             Cardinality({i \in 1..Len(sigs) : sigs[i].type = "decision_needed"}),
         tasks |-> [total |-> total_tasks,
                    completed |-> completed_tasks,
                    in_progress |-> CountStatus(obj, order, "in_progress"),
                    blocked |-> CountStatus(obj, order, "blocked")]]

\* mutant of the status endpoint: the decision_needed signals it has counted
\* are taken out of the log (reported once)
GetProjectStatusAcknowledging ==
    /\ returned' = [call |-> "get_project_status",
                    value |-> get_project_status(project_id, taskObj, tasks, agents,
                                                 signals)]
    /\ signals' = SelectSeq(signals, LAMBDA sig : sig.type # "decision_needed")
    /\ UNCHANGED << tasks, taskObj, agents, context, execution_log, exec,
                    project_id, submitted, faults, decided, budget >>

GetProjectStatus ==
    /\ returned' = [call |-> "get_project_status",
                    value |-> get_project_status(project_id, taskObj, tasks, agents,
                                                 signals)]
    /\ UNCHANGED << tasks, taskObj, agents, signals, context, execution_log, exec,
                    project_id, submitted, faults, decided, budget >>

\* ---- api_server.get_tasks ---------------------------------------------------
TaskResponse(task) ==
    [id |-> task.id, description |-> task.description, status |-> task.status,
     assigned_to |-> task.assigned_to,
     progress |-> IF task.status = "completed" THEN 100
                  ELSE IF task.status = "in_progress" THEN 50
                  ELSE IF task.status = "assigned" THEN 10
                  ELSE 0,
     output |-> task.output]

\* status = "" stands for no filter (None and "" are both falsy)
get_tasks(obj, order, status) ==
    LET kept == SelectSeq(order, LAMBDA t : status = "" \/ obj[t].status = status)
    IN  [i \in 1..Len(kept) |-> TaskResponse(obj[kept[i]])]

StatusFilters == {"", "completed", "in_progress"}

GetTasks(status) ==
    /\ returned' = [call |-> "get_tasks", value |-> get_tasks(taskObj, tasks, status)]
    /\ UNCHANGED << tasks, taskObj, agents, signals, context, execution_log, exec,
                    project_id, submitted, faults, decided, budget >>

\* ---- export_project_state ---------------------------------------------------
export_project_state(pid, ctx, ag, obj, order, sigs, log) ==
    [project_id |-> pid, context |-> ctx, agents |-> ag,
     tasks |-> [t \in Range(order) |-> obj[t]],
     signals |-> sigs, execution_log |-> log]

\* mutant of the export: the export is recorded in the execution log
\* (self._log_event("state_exported", ...))
ExportProjectStateLogged ==
    /\ returned' = [call |-> "export_project_state",
                    value |-> export_project_state(project_id, context, agents, taskObj,
                                                   tasks, signals, execution_log)]
    /\ execution_log' = log_event(execution_log, "state_exported", project_id)
    /\ UNCHANGED << tasks, taskObj, agents, signals, context, exec,
                    project_id, submitted, faults, decided, budget >>

ExportProjectState ==
    /\ returned' = [call |-> "export_project_state",
                    value |-> export_project_state(project_id, context, agents, taskObj,
                                                   tasks, signals, execution_log)]
    /\ UNCHANGED << tasks, taskObj, agents, signals, context, execution_log, exec,
                    project_id, submitted, faults, decided, budget >>

\* ---- api_server.monitor_system: one period of the background loop ----------
\* The loop hands the completed tasks without output to process_completed_task
\* (a placeholder: pass), then broadcasts get_project_status. Its body calls
\* neither _check_pending_tasks nor _assign_task: the set of the pending tasks
\* it evaluates for assignment is empty. It writes nothing.
MonitorSystem ==
    /\ returned' = [call |-> "monitor_system",
                    processed |-> {t \in Range(tasks) :
                                      /\ taskObj[t].status = "completed"
                                      /\ taskObj[t].output = NoOutput},
                    evaluated |-> {},
                    value |-> get_project_status(project_id, taskObj, tasks, agents,
                                                 signals)]
    /\ UNCHANGED << tasks, taskObj, agents, signals, context, execution_log, exec,
                    project_id, submitted, faults, decided, budget >>

TaskIds == {Uuid(n, k) : n \in 1..(MaxEvents \div 2), k \in 1..6}

\* the steps of the coroutine executing task t
ExecuteTask(t) ==
    \/ ExecStart(t)
    \/ \E outcome \in Outcomes : BridgeReturn(t, outcome)
    \/ BridgeRaise(t)
    \/ FallbackWake(t)

Execute == \E t \in TaskIds : ExecuteTask(t)

NextNoReset ==
    \/ \E req \in Requirements : Submit(req)
    \/ Execute

Next ==
    \/ NextNoReset
    \/ Reset

Spec == Init /\ [][Next]_vars

SpecNoReset == Init /\ [][NextNoReset]_vars

\* ---- runs in which decisions are made --------------------------------------
\* (the requirement is the demo's: its analysis, when simulated, declares
\* decisions_needed)
NextDecision ==
    \/ Submit("rest")
    \/ Execute
    \/ Reset
    \/ \E signal_id \in SignalIdInputs, decision \in Decisions :
           MakeDecision(signal_id, decision)

DecisionSpec == InitDecision /\ [][NextDecision]_vars

\* ---- the status functions on any registry ----------------------------------
\* _calculate_health_score and get_project_status are functions of self.tasks:
\* here they are applied to every registry of up to MaxStatusTasks tasks, each
\* task in any status of TaskStatus
InitStatus ==
    \E n \in 0..MaxStatusTasks :
        \E st \in [1..n -> TaskStatus] :
            /\ tasks = [i \in 1..n |-> Uuid(1, i)]
            /\ taskObj = [t \in {Uuid(1, i) : i \in 1..n} |->
                              [Task(t, "analyze", "hello", "analyst", 10, << >>)
                                   EXCEPT !.status = st[t - Uuid(1, 0)]]]
            /\ agents = [a \in AgentIds |-> [status |-> "ready", current_task |-> NoTask]]
            /\ signals = << >>
            /\ context = NoContext
            /\ execution_log = EmptyBag
            /\ exec = << >>
            /\ project_id = 0
            /\ submitted = 0
            /\ faults = 0
            /\ decided = 0
            /\ returned = NoReturn
            /\ budget = 0

StatusSpec == InitStatus /\ [][GetProjectStatus]_vars

\* ---- runs with the readers next to the handlers that write ----------------
InitReader == Constructed /\ budget = MaxReaderEvents

NextReader ==
    \/ Submit("rest")
    \/ Execute
    \/ Reset
    \/ \E signal_id \in SignalIdInputs, decision \in Decisions :
           MakeDecision(signal_id, decision)
    \/ GetProjectStatus
    \/ \E status \in StatusFilters : GetTasks(status)
    \/ ExportProjectState

ReaderSpec == InitReader /\ [][NextReader]_vars

\* ---- runs with the background monitor next to the handlers ------------------
InitMonitor == Constructed /\ budget = MaxMonitorEvents

NextMonitor ==
    \/ \E req \in Requirements : Submit(req)
    \/ Execute
    \/ Reset
    \/ MonitorSystem

MonitorSpec == InitMonitor /\ [][NextMonitor]_vars

\* ---- runs that submit any requirement string of the model, without reset --
InitDecomposer == Constructed /\ budget = MaxDecomposerEvents

NextDecomposer ==
    \/ \E req \in DOMAIN Text : Submit(req)
    \/ Execute

DecomposerSpec == InitDecomposer /\ [][NextDecomposer]_vars

\* the event loop keeps running the dispatched coroutines, and worker calls
\* return or raise: while some execution can take a step, one eventually does
LiveSpec == InitLive /\ [][NextNoReset]_vars /\ WF_vars(Execute)

\* ---- vocabulary of the properties ----------------------------------------
Statuses(S) == {t \in Created : taskObj[t].status \in S}

InFlight == Statuses({"assigned", "in_progress"})

DepIds(t) == Range(taskObj[t].dependencies)

\* every dependency of t is a registered task that is completed
DepsCompleted(t) ==
    \A d \in DepIds(t) : d \in Registered /\ taskObj[d].status = "completed"

ReadyWorkers(agent_type) ==
    {a \in AgentIds : AgentType[a] = agent_type /\ agents[a].status = "ready"}

\* a registered pending task that a scheduling pass would assign
Assignable(t) ==
    /\ t \in Registered
    /\ taskObj[t].status = "pending"
    /\ DepsCompleted(t)
    /\ ReadyWorkers(taskObj[t].agent_type) # {}

\* this step is the end of the execution of t (the completion handler ran)
Finishes(t) == t \in Dispatched /\ exec[t].pc # "done" /\ exec'[t].pc = "done"

\* C1: no step moves a task from pending (or from its creation) to assigned
\* unless, after the step, every id of its dependency list is a registered
\* task whose status is completed; an id that is not registered is not met.
DependencyGating ==
    [][\A t \in DOMAIN taskObj' :
          (/\ taskObj'[t].status # "pending"
           /\ t \in DOMAIN taskObj => taskObj[t].status = "pending")
          => \A i \in 1..Len(taskObj'[t].dependencies) :
                 LET d == taskObj'[t].dependencies[i]
                 IN  /\ d \in Range(tasks')
                     /\ d \in DOMAIN taskObj'
                     /\ taskObj'[d].status = "completed"]_vars

\* a task with a dependency has been assigned while a later one still waits
DependencyGatingWitness ==
    \E t \in Registered, u \in Registered :
        /\ taskObj[t].status = "assigned"
        /\ DepIds(t) # {}
        /\ taskObj[u].status = "pending"
        /\ t \in DepIds(u)

\* C2: the step that ends the execution of a task leaves the task completed
\* and its worker released from it (ready with no current task, unless the
\* re-scan of the same step handed the worker a task that was pending), and
\* after that step no registered pending task is left whose dependencies are
\* all completed and whose category has a ready worker.
CascadingActivation ==
    [][\A t \in DOMAIN exec :
          Finishes(t) =>
              LET a == exec[t].agent
                  u == agents'[a].current_task
              IN  /\ taskObj'[t].status = "completed"
                  /\ \/ agents'[a] = [status |-> "ready", current_task |-> NoTask]
                     \/ /\ agents'[a].status = "working"
                        /\ u # t
                        /\ u \in Range(tasks)
                        /\ taskObj[u].status = "pending"
                        /\ taskObj'[u].status = "assigned"
                        /\ taskObj'[u].assigned_to = a
                  /\ \A v \in Range(tasks') : ~Assignable(v)']_vars

\* with one requirement and no reset, the code-generation task is assigned:
\* only the handler that completed the plan can have assigned it
CascadingActivationWitness ==
    /\ submitted = 1
    /\ project_id = 0
    /\ \E t \in Registered :
           /\ taskObj[t].description.kind = "generate"
           /\ taskObj[t].status = "assigned"
           /\ \A d \in DepIds(t) : exec[d].pc = "done"

Terminal(t) == t \in Created /\ taskObj[t].status \in {"completed", "blocked"}

\* C3: without a reset, and with every dispatched execution eventually
\* running and every worker call eventually returning or raising, every
\* registered task eventually reaches completed or blocked.
\* (no task is unregistered without a reset and terminal statuses are final,
\* so this is: from some point on, every registered task is terminal)
EveryTaskTerminates == <>[](\A t \in Registered : Terminal(t))

\* two requirements were submitted while the single analyst was busy with the
\* first, and every task of both has reached a terminal status
EveryTaskTerminatesWitness ==
    /\ submitted = 2
    /\ \A t \in Registered : Terminal(t)
    /\ \E t \in Registered : BatchOf(t) = 2 /\ exec[t].calls = 1
    /\ \E i \in 1..Len(signals) :
           /\ signals[i].type = "requirement"
           /\ i > 1

\* the execution of t is over and its output is the worker's failed result:
\* the call returned success = false and no fallback output replaced it
FailedForGood(t) ==
    /\ t \in Dispatched
    /\ exec[t].pc = "done"
    /\ taskObj[t].output.origin = "bridge"
    /\ taskObj[t].output.success = "false"

\* C4: a task whose worker call returned success = false, and for which no
\* usable fallback output was produced, is not completed: it ends blocked.
FailedExecutionEndsBlocked ==
    \A t \in Created : FailedForGood(t) => taskObj[t].status = "blocked"

QualityIssues(t) ==
    {i \in 1..Len(signals) :
        /\ signals[i].type = "quality_issue"
        /\ signals[i].data.task_id = t}

\* C5: for every registered task whose execution failed for good, the signal
\* log holds exactly one quality_issue signal referencing the task's id.
OneQualityIssuePerFailure ==
    \A t \in Registered : FailedForGood(t) => Cardinality(QualityIssues(t)) = 1

\* C6: the worker is called at most once per task and the simulated fallback
\* output is applied at most once; when the worker call raised, the execution
\* goes on to its end, after which the task has left in_progress (it is
\* completed, with the simulated output) and its worker is released from it:
\* ready with no current task, or working on another task handed to it since.
BoundedFallback ==
    \A t \in Dispatched :
        /\ exec[t].calls <= 1
        /\ exec[t].fallbacks <= 1
        /\ exec[t].pc = "sleeping" =>
               /\ exec[t].calls = 1
               /\ exec[t].fallbacks = 0
               /\ taskObj[t].status = "in_progress"
        /\ exec[t].fallbacks = 1 =>
               /\ exec[t].pc = "done"
               /\ exec[t].calls = 1
               /\ taskObj[t].status = "completed"
               /\ taskObj[t].output.origin = "simulation"
               /\ LET a == exec[t].agent
                  IN  \/ agents[a] = [status |-> "ready", current_task |-> NoTask]
                      \/ /\ agents[a].status = "working"
                         /\ agents[a].current_task # t
                         /\ agents[a].current_task \in Created

\* a worker call raised, the fallback was applied and the worker is ready
BoundedFallbackWitness ==
    \E t \in Dispatched :
        /\ exec[t].fallbacks = 1
        /\ taskObj[t].output.origin = "simulation"
        /\ agents[exec[t].agent].status = "ready"

\* a registered pending task whose dependencies are completed and whose
\* category has no ready worker
Backlogged(t) ==
    /\ t \in Registered
    /\ taskObj[t].status = "pending"
    /\ DepsCompleted(t)
    /\ ReadyWorkers(taskObj[t].agent_type) = {}

\* C7: an assignment attempt on a task whose category has no ready worker
\* changes nothing (no task, no worker, no coroutine; it appends no signal),
\* the task stays pending and untouched, and every scheduling pass (the
\* re-scan of a completion handler) attempts it again: a task that is still
\* pending after a pass is not assignable in the state the pass leaves.
CapabilityUnavailable ==
    /\ [](\A t \in Registered :
            Backlogged(t) =>
                /\ assign_task(Sched, Registered, t) = Sched
                /\ taskObj[t].assigned_to = NoAgent
                /\ taskObj[t].output = NoOutput
                /\ t \notin Dispatched)
    /\ [][/\ \A t \in DOMAIN taskObj' :
              (t \in DOMAIN taskObj => taskObj[t].status = "pending")
              => \/ taskObj'[t].status = "assigned"
                 \/ /\ taskObj'[t].status = "pending"
                    /\ taskObj'[t].assigned_to = NoAgent
                    /\ taskObj'[t].output = NoOutput
                    /\ t \notin DOMAIN exec'
          /\ \A t \in Range(tasks) :
              (/\ Backlogged(t)
               /\ \E e \in DOMAIN exec : Finishes(e))
              => /\ t \in Range(tasks')
                 /\ taskObj'[t].status = "pending" => ~Assignable(t)']_vars

\* the analysis task of a second requirement waits for the busy analyst
\* after a completion handler has already run
CapabilityUnavailableWitness ==
    \E t \in Registered :
        /\ Backlogged(t)
        /\ BatchOf(t) = 2
        /\ \E e \in Dispatched : exec[e].pc = "done"

\* some dependency of t is not completed
DepIncomplete(t) ==
    \E d \in DepIds(t) : d \notin Created \/ taskObj[d].status # "completed"

\* C8: a task one of whose dependencies is not completed (blocked, or in any
\* other status) is pending, has no worker and no output and was never
\* dispatched, whatever other tasks have completed.
DependencyNeverSatisfied ==
    \A t \in Created :
        DepIncomplete(t) =>
            /\ taskObj[t].status = "pending"
            /\ taskObj[t].assigned_to = NoAgent
            /\ taskObj[t].output = NoOutput
            /\ taskObj[t].completed_at = "None"
            /\ t \notin Dispatched

\* the worker call of a dependency is still outstanding while every task of
\* another requirement has completed; the dependent is still pending
DependencyNeverSatisfiedWitness ==
    \E t \in Registered, d \in Registered :
        /\ d \in DepIds(t)
        /\ d \in Dispatched
        /\ exec[d].pc = "awaiting"
        /\ taskObj[t].status = "pending"
        /\ \E n \in 1..submitted :
               /\ n # BatchOf(t)
               /\ \A u \in Registered : BatchOf(u) = n => taskObj[u].status = "completed"
               /\ \E u \in Registered : BatchOf(u) = n

AllowedTransitions ==
    {<<"pending", "assigned">>, <<"assigned", "in_progress">>,
     <<"in_progress", "completed">>, <<"pending", "blocked">>}

\* C9: a task object is never dropped from the heap, a new task is pending
\* (or already assigned by the step that registered it), a status changes
\* only along pending -> assigned -> in_progress -> completed or
\* pending -> blocked, so completed and blocked are final, and no task has
\* status review.
TaskStateMachine ==
    [][/\ \A t \in DOMAIN taskObj :
            /\ t \in DOMAIN taskObj'
            /\ \/ taskObj'[t].status = taskObj[t].status
               \/ <<taskObj[t].status, taskObj'[t].status>> \in AllowedTransitions
       /\ \A t \in DOMAIN taskObj' :
            /\ taskObj'[t].status \in TaskStatus \ {"review"}
            /\ t \notin DOMAIN taskObj => taskObj'[t].status \in {"pending", "assigned"}
      ]_vars

\* tasks in each of the statuses the code uses, one of them completed
TaskStateMachineWitness ==
    /\ Statuses({"pending"}) # {}
    /\ Statuses({"assigned"}) # {}
    /\ Statuses({"in_progress"}) # {}
    /\ Statuses({"completed"}) # {}

\* the tasks of the n-th submission, in chain order
Batch(n) == {t \in Created : BatchOf(t) = n}

\* C10: in every requirement, a task that has left pending has every earlier
\* task of its chain completed, and at most one task of the requirement is
\* assigned or in progress.
ChainOrder ==
    \A n \in 1..submitted :
        /\ \A t \in Batch(n), u \in Batch(n) :
               (u < t /\ taskObj[t].status # "pending") => taskObj[u].status = "completed"
        /\ Cardinality(Batch(n) \cap InFlight) <= 1

\* tasks of two different requirements are in progress at the same time
ChainOrderWitness ==
    \E t \in Registered, u \in Registered :
        /\ BatchOf(t) # BatchOf(u)
        /\ taskObj[t].status = "in_progress"
        /\ taskObj[u].status = "in_progress"
        /\ DepIds(t) # {}

\* C11: every dependency id of a task refers to a task created earlier by the
\* same decompose call, so no task of one requirement depends on a task of
\* another requirement, also when both have the same keyword profile.
IndependentChains ==
    \A t \in Created :
        \A d \in DepIds(t) :
            /\ d \in Created
            /\ BatchOf(d) = BatchOf(t)
            /\ d < t

\* two requirements with the same text are registered together, both chains
\* with dependent tasks, and a task of each is being executed
IndependentChainsWitness ==
    \E t \in Registered, u \in Registered :
        /\ BatchOf(t) # BatchOf(u)
        /\ taskObj[t].description.requirement = taskObj[u].description.requirement
        /\ DepIds(t) # {} /\ DepIds(u) # {}
        /\ taskObj[t].status = "in_progress"
        /\ taskObj[u].status = "in_progress"

\* the tasks of the n-th submission, in the order of the returned list
BatchSeq(n) == SelectSeq(tasks, LAMBDA t : BatchOf(t) = n)

\* the requirement string of the n-th submission
BatchRequirement(n) == taskObj[BatchSeq(n)[1]].description.requirement

\* C12: the task list of every requirement is a simple chain: the first task
\* has no dependencies, every later task depends on exactly the task just
\* before it in the list, no task has more than one dependent, and every
\* dependency precedes its dependent in the list (so the graph is acyclic).
ChainShape ==
    \A n \in 1..submitted :
        LET chain == BatchSeq(n)
        IN  /\ Len(chain) >= 1
            /\ taskObj[chain[1]].dependencies = << >>
            /\ \A i \in 2..Len(chain) : taskObj[chain[i]].dependencies = << chain[i - 1] >>
            /\ \A d \in Range(chain) :
                   Cardinality({t \in Registered : d \in DepIds(t)}) <= 1
            /\ \A i \in 1..Len(chain) :
                   \A d \in DepIds(chain[i]) : \E j \in 1..(i - 1) : chain[j] = d

\* a chain of six tasks is registered and executed up to its last task
ChainShapeWitness ==
    \E n \in 1..submitted :
        /\ Len(BatchSeq(n)) = 6
        /\ taskObj[BatchSeq(n)[6]].status = "in_progress"

\* the requirement, lower-cased, contains one of the keywords
HasKeyword(text) ==
    \E i \in 1..Len(DeepKeywords) :
        \E k \in 1..Len(text) :
            /\ k + Len(DeepKeywords[i]) - 1 <= Len(text)
            /\ SubSeq(Lower(text), k, k + Len(DeepKeywords[i]) - 1) = DeepKeywords[i]

\* evaluated once per requirement string of the model
KeywordInText == [r \in DOMAIN Text |-> HasKeyword(Text[r])]

Stage(t) == << taskObj[t].description.kind, taskObj[t].agent_type >>

\* C13: a requirement whose lower-cased text contains none of the keywords
\* yields exactly four tasks (analysis, plan, implementation, validation),
\* none of them for the reasoner; a requirement that contains a keyword yields
\* exactly six: analysis, deep reasoning, plan, implementation, validation,
\* post-validation optimization.
StageSelection ==
    \A n \in 1..submitted :
        LET chain == BatchSeq(n)
        IN  [i \in 1..Len(chain) |-> Stage(chain[i])] =
                IF KeywordInText[BatchRequirement(n)]
                THEN << <<"analyze", "analyst">>, <<"reason", "reasoner">>,
                        <<"plan", "analyst">>, <<"generate", "implementer">>,
                        <<"validate", "validator">>, <<"refine", "reasoner">> >>
                ELSE << <<"analyze", "analyst">>, <<"plan", "analyst">>,
                        <<"generate", "implementer">>, <<"validate", "validator">> >>

\* a requirement with its only keyword in upper case got its six tasks, and
\* the deep-reasoning task is completed
StageSelectionWitness ==
    \E n \in 1..submitted :
        /\ BatchRequirement(n) \in {"kw_performance", "kw_security"}
        /\ Len(BatchSeq(n)) = 6
        /\ taskObj[BatchSeq(n)[2]].status = "completed"

StagePriority ==
    [analyze |-> 10, reason |-> 9, plan |-> 8, generate |-> 7, validate |-> 6,
     refine |-> 5]

\* C14: analysis has priority 10, deep reasoning 9, plan 8, implementation 7,
\* validation 6, post-validation optimization 5, and the priority of every
\* task is strictly lower than the priority of the task it depends on.
DecomposerPriorities ==
    \A t \in Created :
        /\ taskObj[t].priority = StagePriority[taskObj[t].description.kind]
        /\ \A d \in DepIds(t) : taskObj[t].priority < taskObj[d].priority

\* the post-validation optimization, with priority 5, is assigned after the
\* validation, with priority 6, is completed
DecomposerPrioritiesWitness ==
    \E t \in Registered, d \in Registered :
        /\ taskObj[t].description.kind = "refine"
        /\ d \in DepIds(t)
        /\ taskObj[d].status = "completed"
        /\ taskObj[t].status = "assigned"

\* task t is given to a worker by this step
NewlyAssigned(t) ==
    /\ t \in DOMAIN taskObj'
    /\ taskObj'[t].assigned_to # NoAgent
    /\ t \in DOMAIN taskObj => taskObj[t].assigned_to = NoAgent

\* worker a is ready when this step assigns: it was ready before the step, or
\* the completion handled by this step has released it before its re-scan
ReadyAtAssignment(a) ==
    \/ agents[a].status = "ready"
    \/ \E u \in Dispatched : Finishes(u) /\ exec[u].agent = a

RosterIndex(a) == CHOOSE i \in 1..Len(AgentOrder) : AgentOrder[i] = a

\* C15: a task is only ever assigned to a worker of the task's category that
\* is ready at the moment of the assignment, no worker gets two tasks in one
\* step, and no worker of that category earlier in the roster was ready.
\* (The roster of _initialize_agents has one worker per category, and
\* performance_score is never read by the scheduler.)
WorkerSelection ==
    [][\A t \in DOMAIN taskObj' :
           NewlyAssigned(t) =>
               LET a == taskObj'[t].assigned_to
               IN  /\ a \in AgentIds
                   /\ AgentType[a] = taskObj'[t].agent_type
                   /\ ReadyAtAssignment(a)
                   /\ \A u \in DOMAIN taskObj' :
                          (NewlyAssigned(u) /\ taskObj'[u].assigned_to = a) => u = t
                   /\ \A b \in AgentIds :
                          (RosterIndex(b) < RosterIndex(a) /\ AgentType[b] = AgentType[a])
                              => ~ReadyAtAssignment(b)
      ]_vars

\* the analyst, released by the completion of an analysis, holds the plan of
\* that requirement while the analysis of another requirement waits for it
WorkerSelectionWitness ==
    \E t \in Registered, u \in Registered :
        /\ taskObj[t].description.kind = "plan"
        /\ taskObj[t].assigned_to = "claude_analyst"
        /\ agents["claude_analyst"] = [status |-> "working", current_task |-> t]
        /\ taskObj[u].description.kind = "analyze"
        /\ taskObj[u].status = "pending"

\* this step appends a decision_needed signal that references task t
DecisionSignalAppended(t) ==
    /\ Len(signals') = Len(signals) + 1
    /\ signals'[Len(signals')].type = "decision_needed"
    /\ signals'[Len(signals')].data.task_id = t

\* C16: when a task completes, a decision_needed signal referencing the task
\* is appended if and only if the output of the task has a decisions_needed
\* field; an output that only mentions decisions_needed in its response
\* produces no signal.
DecisionPoints ==
    [][\A t \in Dispatched :
           Finishes(t) =>
               (DecisionSignalAppended(t) <=> taskObj'[t].output.decisions_field)
      ]_vars

\* the implementation task of the requirement of task t
ImplementationOf(t) ==
    {g \in Created : BatchOf(g) = BatchOf(t) /\ taskObj[g].description.kind = "generate"}

\* C17: whenever a validation task has been dispatched to its worker, the
\* context handed to the worker holds, under the key implementer_result, the
\* output of the completed implementation task of the same requirement.
ContextPropagation ==
    \A t \in Dispatched :
        (taskObj[t].description.kind = "validate" /\ exec[t].calls > 0) =>
            /\ "implementer_result" \in DOMAIN exec[t].worker_context
            /\ \E g \in ImplementationOf(t) :
                   /\ taskObj[g].status = "completed"
                   /\ exec[t].worker_context["implementer_result"] = taskObj[g].output

\* task t was in flight when the project was reset: its coroutine still runs,
\* but the reset has removed the task from self.tasks
Orphaned(t) == t \in Dispatched /\ exec[t].pc # "done" /\ t \notin Registered

\* C18: the completion of an execution that was in flight during a project
\* reset is ignored: it adds no task and no signal, and it changes the status
\* and the current task of no worker.
ResetDiscardsInFlight ==
    [][\A t \in Dispatched :
           (Orphaned(t) /\ Finishes(t)) =>
               /\ tasks' = tasks
               /\ signals' = signals
               /\ agents' = agents
      ]_vars

\* this step is a call of make_decision (for returned'.signal_id)
DecisionCall == returned'.call = "make_decision"

\* C19: make_decision with a signal id that is not in the signal log returns
\* false and changes nothing: the signal log, the project context (absent if
\* it was absent) and the execution log stay as they were, as do the tasks
\* and the workers.
UnknownSignalId ==
    [][(DecisionCall /\ returned'.signal_id \notin SignalIds) =>
           /\ returned'.value = "false"
           /\ UNCHANGED << signals, context, execution_log, tasks, taskObj, agents,
                           project_id >>
      ]_vars

\* make_decision has just returned false for an id that is not in the
\* non-empty signal log, once with the context absent
UnknownSignalIdWitness ==
    /\ returned.call = "make_decision"
    /\ returned.value = "false"
    /\ returned.signal_id \notin SignalIds
    /\ signals # << >>
    /\ context.absent

\* the payload of the signal with this id in the log
SignalData(signal_id) ==
    (CHOOSE sig \in Range(signals) : sig.id = signal_id).data

\* C20: make_decision with a signal id of the log returns true and stores
\* under that id the decision text and the payload of that signal; the
\* context is created by the first successful decision and kept by the later
\* ones, so the decisions recorded for other signals are preserved.
RecordingDecision ==
    [][(DecisionCall /\ returned'.signal_id \in SignalIds) =>
           LET id == returned'.signal_id
           IN  /\ returned'.value = "true"
               /\ ~context'.absent
               /\ id \in DOMAIN context'.decisions
               /\ context'.decisions[id] =
                      [decision |-> returned'.decision, signal_data |-> SignalData(id)]
               /\ context.absent =>
                      /\ context'.project_id = project_id
                      /\ DOMAIN context'.decisions = {id}
               /\ ~context.absent =>
                      /\ context'.project_id = context.project_id
                      /\ DOMAIN context'.decisions = DOMAIN context.decisions \cup {id}
                      /\ \A other \in DOMAIN context.decisions \ {id} :
                             context'.decisions[other] = context.decisions[other]
      ]_vars

\* a decision on a decision_needed signal has just been recorded next to the
\* decision recorded earlier for the requirement signal
RecordingDecisionWitness ==
    /\ returned.call = "make_decision"
    /\ returned.value = "true"
    /\ ~context.absent
    /\ \E other \in DOMAIN context.decisions :
           /\ other # returned.signal_id
           /\ context.decisions[other].decision # returned.decision
    /\ \E sig \in Range(signals) :
           sig.id = returned.signal_id /\ sig.type = "decision_needed"

\* C21: between project resets every operation (submission, completion
\* handler, make_decision, status, listing, export) leaves the signals of the
\* log as they are and in their order; the log only grows at its end.
SignalLogAppendOnly ==
    [][project_id' = project_id =>
           /\ Len(signals') >= Len(signals)
           /\ SubSeq(signals', 1, Len(signals)) = signals
      ]_vars

\* the log holds a requirement signal followed by a decision_needed signal, a
\* decision has been recorded, and the status has just been read
SignalLogAppendOnlyWitness ==
    /\ Len(signals) >= 2
    /\ signals[1].type = "requirement"
    /\ signals[2].type = "decision_needed"
    /\ decided > 0
    /\ returned.call = "get_project_status"

\* the number of registered tasks in a status
InStatus(status) == Cardinality({t \in Registered : taskObj[t].status = status})

\* clamp(85 - 20 * blocked / max(total, 1), 0, 100), as numerator over the
\* denominator max(total, 1)
ClampedHealth(blocked, total) ==
    LET den == IF total > 1 THEN total ELSE 1
        num == 85 * den - 20 * blocked
    IN  [num |-> IF num > 100 * den THEN 100 * den ELSE IF num < 0 THEN 0 ELSE num,
         den |-> den]

\* C22: the health score reported by get_project_status is
\* clamp(85 - 20 * blocked / max(total, 1), 0, 100): it is 85 when there is no
\* task or no blocked task, and it depends on nothing but the two counts.
HealthScoreFormula ==
    returned.call = "get_project_status" =>
        LET h == returned.value.health_score
            e == ClampedHealth(InStatus("blocked"), Cardinality(Registered))
        IN  /\ h.den > 0
            /\ h.num * e.den = e.num * h.den
            /\ (Registered = {} \/ InStatus("blocked") = 0) => h = [num |-> 85, den |-> 1]

\* the status of a registry with one blocked task among four, one of the
\* others completed and one in progress: the score is 80
HealthScoreFormulaWitness ==
    /\ returned.call = "get_project_status"
    /\ Len(tasks) = 4
    /\ InStatus("blocked") = 1
    /\ InStatus("completed") = 1
    /\ InStatus("in_progress") = 1
    /\ returned.value.health_score = [num |-> 80, den |-> 1]

\* C23: for every registry, the empty one included, the health score lies in
\* [0, 100], and with the same number of tasks one more blocked task never
\* gives a larger score.
HealthScoreBounds ==
    returned.call = "get_project_status" =>
        LET h == returned.value.health_score
        IN  /\ 0 <= h.num /\ h.num <= 100 * h.den
            /\ \A t \in Registered :
                   taskObj[t].status # "blocked" =>
                       LET h2 == calculate_health_score(
                                     [taskObj EXCEPT ![t].status = "blocked"], tasks)
                       IN  h2.num * h.den <= h.num * h2.den

\* the status of a registry whose tasks are all blocked: the score is 65
HealthScoreBoundsWitness ==
    /\ returned.call = "get_project_status"
    /\ Len(tasks) >= 2
    /\ InStatus("blocked") = Len(tasks)
    /\ returned.value.health_score = [num |-> 65, den |-> 1]

\* C24: get_project_status reports progress = completed / total * 100, and 0
\* when no task is registered; the progress is 100 exactly when at least one
\* task is registered and every registered task is completed.
ProgressFormula ==
    returned.call = "get_project_status" =>
        LET p == returned.value.progress
            total == Cardinality(Registered)
            completed == InStatus("completed")
        IN  /\ p.den > 0
            /\ total = 0 => p = [num |-> 0, den |-> 1]
            /\ total > 0 => p.num * total = completed * 100 * p.den
            /\ p = [num |-> 100, den |-> 1] <=> (total >= 1 /\ completed = total)

\* the status read when the four tasks of a requirement are completed
ProgressFormulaWitness ==
    /\ returned.call = "get_project_status"
    /\ Len(tasks) = 4
    /\ InStatus("completed") = 4
    /\ returned.value.progress = [num |-> 100, den |-> 1]

ReaderCalls == {"get_project_status", "get_tasks", "export_project_state"}

\* C26: get_project_status, the task listing and export_project_state leave
\* the tasks, the workers, the signals, the project context and the execution
\* log unchanged, in whatever state they are called.
ReadersNeverMutate ==
    [][returned'.call \in ReaderCalls =>
           UNCHANGED << tasks, taskObj, agents, signals, context, execution_log, exec,
                        project_id >>
      ]_vars

\* the state has been exported while an execution is awaiting its worker and
\* a decision is recorded in the project context
ReadersNeverMutateWitness ==
    /\ returned.call = "export_project_state"
    /\ \E t \in Registered : taskObj[t].status = "in_progress" /\ exec[t].pc = "awaiting"
    /\ ~context.absent

\* the task objects created by this step
NewTasks == DOMAIN taskObj' \ DOMAIN taskObj

\* C27: process_requirement appends exactly one requirement signal, whose id
\* is the returned requirement id and whose source is user, registers every
\* task of the batch, and returns without an execution having run: the new
\* tasks are pending or assigned and without output, no coroutine has moved;
\* on an idle roster the analysis is assigned and the other tasks are pending.
Submission ==
    [][returned'.call = "process_requirement" =>
           LET req_id == returned'.value
               last == signals'[Len(signals')]
           IN  /\ Len(signals') = Len(signals) + 1
               /\ SubSeq(signals', 1, Len(signals)) = signals
               /\ last.type = "requirement" /\ last.id = req_id /\ last.source = "user"
               /\ \A i \in 1..Len(signals) : signals[i].id # req_id
               /\ Cardinality(NewTasks) \in {4, 6}
               /\ Len(tasks') = Len(tasks) + Cardinality(NewTasks)
               /\ SubSeq(tasks', 1, Len(tasks)) = tasks
               /\ \A i \in (Len(tasks) + 1)..Len(tasks') : tasks'[i] \in NewTasks
               /\ \A t \in NewTasks :
                      /\ taskObj'[t].status \in {"pending", "assigned"}
                      /\ taskObj'[t].output = NoOutput
                      /\ t \in DOMAIN exec' => exec'[t] = NewCoroutine(exec'[t].agent)
               /\ \A t \in Dispatched : exec'[t] = exec[t]
               /\ \A t \in DOMAIN taskObj : taskObj'[t] = taskObj[t]
               /\ (\A a \in AgentIds : agents[a].status = "ready") =>
                      \A t \in NewTasks :
                          taskObj'[t].status =
                              IF taskObj'[t].description.kind = "analyze"
                              THEN "assigned" ELSE "pending"
      ]_vars

\* a second requirement has just been submitted while the analyst is busy
\* with the first: all its tasks are registered and pending
SubmissionWitness ==
    /\ returned.call = "process_requirement"
    /\ submitted = 2
    /\ \E t \in Registered : BatchOf(t) = 1 /\ taskObj[t].status = "in_progress"
    /\ \A t \in Registered : BatchOf(t) = 2 => taskObj[t].status = "pending"
    /\ \E t \in Registered : BatchOf(t) = 2

\* the dispatched executions of worker a that have not reached their end
Running(a) == {t \in Dispatched : exec[t].agent = a /\ exec[t].pc # "done"}

\* C28: whatever the interleaving of submissions, completions and resets, no
\* worker has two dispatched executions running at the same time.
WorkerExclusivity == \A a \in AgentIds : Cardinality(Running(a)) <= 1

\* the workers in status working
Working == {a \in AgentIds : agents[a].status = "working"}

\* C29: without resets, a worker is working iff its current_task is set, and
\* then that task is registered, assigned or in progress, and assigned to that
\* worker; every task that is assigned or in progress is the current task of
\* exactly one working worker, so there are as many working workers as
\* in-flight tasks.
WorkerTaskConsistency ==
    /\ \A a \in AgentIds :
           /\ (a \in Working) <=> (agents[a].current_task # NoTask)
           /\ a \in Working =>
                  LET t == agents[a].current_task
                  IN  /\ t \in Registered
                      /\ taskObj[t].status \in {"assigned", "in_progress"}
                      /\ taskObj[t].assigned_to = a
    /\ \A t \in Created :
           taskObj[t].status \in {"assigned", "in_progress"} =>
               Cardinality({a \in Working : agents[a].current_task = t}) = 1
    /\ Cardinality(Working) = Cardinality(InFlight)

\* two workers are busy at once, on tasks of two requirements, after an
\* earlier task has completed and released its worker
WorkerTaskConsistencyWitness ==
    /\ project_id = 0
    /\ Cardinality(Working) = 2
    /\ \E t \in Registered : taskObj[t].status = "completed"
    /\ \E t, u \in InFlight : BatchOf(t) # BatchOf(u)

\* C30: each task is dispatched at most once. A coroutine, once created for a
\* task, is never replaced: it keeps its worker, never returns to an earlier
\* position, makes at most one worker call, and is left alone once done; a
\* task that has left pending never becomes pending again and keeps its
\* worker; only a pending task is dispatched.
SingleDispatch ==
    [][\A t \in Created :
           /\ t \in Dispatched =>
                  /\ t \in DOMAIN exec'
                  /\ exec'[t].agent = exec[t].agent
                  /\ exec'[t].calls >= exec[t].calls
                  /\ exec'[t].calls <= 1
                  /\ exec[t].pc # "scheduled" => exec'[t].pc # "scheduled"
                  /\ exec[t].pc = "done" => exec'[t] = exec[t]
           /\ taskObj[t].status # "pending" =>
                  /\ t \in Dispatched
                  /\ t \in DOMAIN taskObj'
                  /\ taskObj'[t].status # "pending"
                  /\ taskObj'[t].assigned_to = taskObj[t].assigned_to
           /\ (t \notin Dispatched /\ t \in DOMAIN exec') =>
                  /\ taskObj[t].status = "pending"
                  /\ exec'[t] = NewCoroutine(taskObj'[t].assigned_to)
      ]_vars

\* a task has completed on the fallback path and its completion handler has
\* dispatched its successor, while a second requirement is registered
SingleDispatchWitness ==
    /\ submitted = 2
    /\ \E t \in Dispatched :
           /\ exec[t].pc = "done" /\ exec[t].fallbacks = 1
           /\ taskObj[t].status = "completed"
           /\ \E u \in Dispatched :
                  /\ t \in DepIds(u)
                  /\ exec[u].pc # "done"

\* the registered tasks that wait for an assignment
PendingTasks == {t \in Registered : taskObj[t].status = "pending"}

\* C31: pending tasks are re-evaluated for assignment periodically, whatever
\* the completions: every period of the background monitor evaluates every
\* registered pending task for assignment.
PeriodicFallbackScan ==
    returned.call = "monitor_system" => PendingTasks \subseteq returned.evaluated

\* no registered pending task is left that a scheduling pass would assign:
\* the handlers that release a worker or complete a dependency re-scan at once
NothingStranded == \A t \in Registered : ~Assignable(t)

\* C32: when a step assigns a task, no task of the same category with a higher
\* priority is left pending with all its dependencies completed: among the
\* tasks competing for a worker, the one with the highest priority goes first.
PriorityAmongCompeting ==
    [][\A t \in Range(tasks') :
           NewlyAssigned(t) =>
               \A v \in Range(tasks') :
                   (/\ taskObj'[v].status = "pending"
                    /\ taskObj'[v].agent_type = taskObj'[t].agent_type
                    /\ \A d \in Range(taskObj'[v].dependencies) :
                           d \in Range(tasks') /\ taskObj'[d].status = "completed")
                   => taskObj'[v].priority <= taskObj'[t].priority
      ]_vars

\* the decision_needed signals of the log for which the context records no
\* decision
Undecided ==
    {i \in 1..Len(signals) :
        /\ signals[i].type = "decision_needed"
        /\ context.absent \/ signals[i].id \notin DOMAIN context.decisions}

\* C33: the pending_decisions value of get_project_status is the number of
\* decision_needed signals for which no decision has been recorded, so that a
\* successful make_decision on such a signal lowers it by one.
PendingDecisionCount ==
    get_project_status(project_id, taskObj, tasks, agents, signals).pending_decisions
        = Cardinality(Undecided)

\* this step is a project reset (the only handler that draws a new project id)
ResetCall == project_id' # project_id

\* C34: immediately after a project reset the task map and the signal log are
\* empty, every worker is ready with no current task, the project context is
\* absent, and the roster has the same workers as before.
ResetEffect ==
    [][ResetCall =>
           /\ tasks' = << >>
           /\ signals' = << >>
           /\ \A a \in AgentIds :
                  agents'[a] = [status |-> "ready", current_task |-> NoTask]
           /\ context'.absent
           /\ DOMAIN agents' = DOMAIN agents
           /\ DOMAIN agents' = AgentIds
      ]_vars

\* a reset has just discarded a context that held a decision, while an
\* execution dispatched before it is still running
ResetEffectWitness ==
    /\ project_id = 1
    /\ decided >= 1
    /\ context.absent
    /\ tasks = << >>
    /\ signals = << >>
    /\ \E t \in Dispatched : exec[t].pc # "done"

\* the raw texts of the requirements submitted in this run (those of the
\* requirement signals of the log)
SubmittedTexts ==
    {signals[i].data.content : i \in {j \in 1..Len(signals) :
                                         signals[j].type = "requirement"}}

\* C35: once the project context exists, its requirements list contains the
\* raw text of every requirement submitted through process_requirement.
RequirementAccumulation ==
    ~context.absent => SubmittedTexts \subseteq Range(context.requirements)

\* the fields of one task agree with its status
TaskFields(task) ==
    /\ (task.completed_at # "None") <=> (task.status = "completed")
    /\ task.status = "pending" =>
           task.assigned_to = NoAgent /\ task.output = NoOutput
    /\ task.status \in {"assigned", "in_progress", "completed"} =>
           task.assigned_to \in AgentIds

\* C36: in every reachable state a task has a completion timestamp iff it is
\* completed, a pending task has no worker and no output, a task that is
\* assigned, in progress or completed has a roster worker in assigned_to, and
\* assigned_to never changes once it is set.
TaskFieldConsistency ==
    [][/\ \A t \in Created : TaskFields(taskObj[t])
       /\ \A t \in DOMAIN taskObj' : TaskFields(taskObj'[t])
       /\ \A t \in Created :
              taskObj[t].assigned_to # NoAgent =>
                  /\ t \in DOMAIN taskObj'
                  /\ taskObj'[t].assigned_to = taskObj[t].assigned_to
      ]_vars

\* tasks in every status the code reaches, one of them completed after the
\* reset that removed it from the registry
TaskFieldConsistencyWitness ==
    /\ \E t \in Created \ Registered :
           taskObj[t].status = "completed" /\ taskObj[t].completed_at = "set"
    /\ \E t \in Registered : taskObj[t].status = "pending"
    /\ \E t \in Registered : taskObj[t].status \in {"assigned", "in_progress"}

\* the positions of the decision_needed signals in a signal log
DecisionSignals(sigs) == {i \in 1..Len(sigs) : sigs[i].type = "decision_needed"}

\* C37: at most one decision_needed signal is ever emitted per task: a step
\* adds at most one such signal, and only when it ends the execution of the
\* task the signal names (which happens once per task); the log never holds
\* two for one task; the task is then completed, the payload task_id is its id
\* and the source is the worker the task was assigned to.
DecisionSignalProvenance ==
    [][/\ \A i \in DecisionSignals(signals') :
              LET t == signals'[i].data.task_id
              IN  /\ t \in DOMAIN taskObj'
                  /\ taskObj'[t].id = t
                  /\ taskObj'[t].status = "completed"
                  /\ signals'[i].source = taskObj'[t].assigned_to
                  /\ \A j \in DecisionSignals(signals') :
                         signals'[j].data.task_id = t => j = i
                  /\ signals'[i] \notin Range(signals) =>
                         /\ Finishes(t)
                         /\ i = Len(signals')
       /\ Cardinality(DecisionSignals(signals'))
              <= Cardinality(DecisionSignals(signals)) + 1
      ]_vars

\* the execution of an analysis has ended after the reset that removed its
\* task, and its decision signal is in the log of the new project
DecisionSignalProvenanceWitness ==
    /\ project_id = 1
    /\ \E i \in DecisionSignals(signals) :
           LET t == signals[i].data.task_id
           IN  /\ t \notin Registered
               /\ taskObj[t].status = "completed"
               /\ signals[i].source = "claude_analyst"
               /\ exec[t].pc = "done"
====
